---- MODULE Spec2Model ----
(***************************************************************************)
(* Event-sourced loan-state engine of the Hashstack protocol adapter       *)
(* (src/src/hashstack.py): event ordering, the eight state-transition      *)
(* handlers over the loan store, and the risk formulas of a loan entity.   *)
(***************************************************************************)
EXTENDS Integers, Sequences, FiniteSets, TLC

VARIABLES
    loan_entities,  \* HashstackState.loan_entities: loan id -> loan entity
    last,           \* the handler call that ended last: key_name, loan id, outcome
    raw,            \* the frame returned by src.helpers.get_events, in source order
    events,         \* the frame returned by get_events: order column added, sorted
    cursor,         \* number of events of the batch already replayed
    snapshot,       \* the store as it was when the replay of the batch started
    pc,             \* position of the replay driver
    risk            \* inputs and result of the last risk formula evaluated

vars == <<loan_entities, last, raw, events, cursor, snapshot, pc, risk>>

----------------------------------------------------------------------------
(* Bounds of the model *)

\* face amounts carried by events range over 0..MaxAmount
MaxAmount == 1
\* number of events in a fetched batch
MaxBatch == 3
\* USD values handed to the risk formulas range over 0..MaxUsd
MaxUsd == 6
\* debt categories handed to the risk formulas range over 0..MaxCategory
MaxCategory == 4

LoanIds == {7}
Users == {"0xu1", "0xu2"}
Amounts == 0..MaxAmount
Categories == {1, 2}

----------------------------------------------------------------------------
(* Token registry and token amounts *)

\* the known token universe (keys of src.constants.TOKEN_DECIMAL_FACTORS)
Tokens == {"ETH", "USDC"}

\* src.constants.get_symbol: address -> symbol, a KeyError on a lookup miss
SymbolOf == [a \in {"0x049d", "0x053c"} |-> IF a = "0x049d" THEN "ETH" ELSE "USDC"]

\* every address that reaches the decoder: the registered ones and a foreign one
Addresses == DOMAIN SymbolOf \cup {"0xdead"}

Known(a) == a \in DOMAIN SymbolOf

get_symbol(a) == SymbolOf[a]

\* src.state.TokenAmounts(): every known token at zero
TokenAmounts == [t \in Tokens |-> 0]

\* the amount written to every token
SingleTokenEverywhere(token, amount) == [t \in Tokens |-> amount]

\* x = TokenAmounts(); x.token_amounts[token] = amount
SingleToken(token, amount) == [TokenAmounts EXCEPT ![token] = amount]

\* the sum that leaves the borrowed part out
SumCollateralOriginalOnly(original, borrowed) == [t \in Tokens |-> original[t]]

\* {token: original[token] + borrowed[token] for token in TOKEN_DECIMAL_FACTORS}
SumCollateral(original, borrowed) == [t \in Tokens |-> original[t] + borrowed[t]]

\* HashstackLoanEntity(user, debt_category), LoanEntity.__init__ included
HashstackLoanEntity(user, debt_category) ==
    [user |-> user,
     debt_category |-> debt_category,
     original_collateral |-> TokenAmounts,
     borrowed_collateral |-> TokenAmounts,
     collateral |-> TokenAmounts,
     debt |-> TokenAmounts]

\* the store rebound to a dictionary that holds the one entity
PutAlone(store, loan_id, entity) == [i \in {loan_id} |-> entity]

\* self.loan_entities[loan_id] = entity
Put(store, loan_id, entity) ==
    [i \in DOMAIN store \cup {loan_id} |-> IF i = loan_id THEN entity ELSE store[i]]

EmptyStore == [i \in {} |-> 0]

Result(store, outcome) == [store |-> store, outcome |-> outcome]

----------------------------------------------------------------------------
(* Events.  data holds the cells of the positional `data` array that the    *)
(* handlers read, named after the record fields listed in their comments.   *)

Event(key_name, block_number, transaction_hash, data) ==
    [key_name |-> key_name, block_number |-> block_number,
     transaction_hash |-> transaction_hash, data |-> data]

\* a cell that holds no token address (`created_at`, or an amount)
NoAddress == "0x6500"

\* data[14] and data[17] of a new_loan event: the collateral record starts at
\* index 14 in the usual layout and at index 13 in the layout of the initial loans
Data14(d) == IF d.layout = "primary" THEN d.collateral_market ELSE NoAddress
Data17(d) == IF d.layout = "primary" THEN d.collateral_current_amount ELSE 0
Data13(d) == IF d.layout = "primary" THEN NoAddress ELSE d.collateral_market
Data16(d) == IF d.layout = "primary" THEN 0 ELSE d.collateral_current_amount

\* len(event["data"]) of a new_loan event: the usual layout, the layout of the initial
\* loans with one cell less, and an array cut off behind the loan record
DataLength(d) ==
    IF d.layout = "primary" THEN 24 ELSE IF d.layout = "shifted" THEN 23 ELSE 14

----------------------------------------------------------------------------
(* The handlers of HashstackState: store and event to store and outcome.    *)
(* A handler that raises returns the store as the raise leaves it.          *)

\* self.loan_entities[loan_id] on an id without entity raises
Has(store, loan_id) == loan_id \in DOMAIN store

\* the event's amount added to the balance instead of replacing it
RewriteOriginalAdding(entity, token, amount) ==
    LET original == [entity.original_collateral EXCEPT ![token] = @ + amount] IN
    [entity EXCEPT !.original_collateral = original,
                   !.collateral = SumCollateral(original, entity.borrowed_collateral)]

\* the event's amount written into the balance that is there: other tokens are kept
RewriteOriginalMerging(entity, token, amount) ==
    LET original == [entity.original_collateral EXCEPT ![token] = amount] IN
    [entity EXCEPT !.original_collateral = original,
                   !.collateral = SumCollateral(original, entity.borrowed_collateral)]

\* the entity with original_collateral replaced and collateral recomputed
RewriteOriginal(entity, token, amount) ==
    LET original == SingleToken(token, amount) IN
    [entity EXCEPT !.original_collateral = original,
                   !.collateral = SumCollateral(original, entity.borrowed_collateral)]

\* the event's amount written into the borrowed balance that is there: other tokens
\* are kept
RewriteBorrowedMerging(entity, token, amount) ==
    LET borrowed == [entity.borrowed_collateral EXCEPT ![token] = amount] IN
    [entity EXCEPT !.borrowed_collateral = borrowed,
                   !.collateral = SumCollateral(entity.original_collateral, borrowed)]

\* the entity with borrowed_collateral replaced and collateral recomputed
RewriteBorrowed(entity, token, amount) ==
    LET borrowed == SingleToken(token, amount) IN
    [entity EXCEPT !.borrowed_collateral = borrowed,
                   !.collateral = SumCollateral(entity.original_collateral, borrowed)]

\* loan creation that refuses a loan id that has an entity
process_new_loan_event_guarded(store, e) ==
    LET d == e.data IN
    IF Has(store, d.id) THEN Result(store, "AssertionError")
    ELSE IF ~Known(d.market) \/ ~Known(d.current_market) THEN Result(store, "KeyError")
    ELSE IF DataLength(d) <= 14 THEN Result(store, "IndexError")
    ELSE IF Known(Data14(d)) /\ DataLength(d) <= 17 THEN Result(store, "IndexError")
    ELSE IF ~Known(Data14(d)) /\ ~Known(Data13(d)) THEN Result(store, "KeyError")
    ELSE IF ~Known(Data14(d)) /\ DataLength(d) <= 16 THEN Result(store, "IndexError")
    ELSE
        LET original_collateral_token ==
                IF Known(Data14(d)) THEN get_symbol(Data14(d)) ELSE get_symbol(Data13(d))
            original_collateral_face_amount ==
                IF Known(Data14(d)) THEN Data17(d) ELSE Data16(d)
            fresh == HashstackLoanEntity(d.owner, d.debt_category)
            original == SingleToken(original_collateral_token, original_collateral_face_amount)
            borrowed == SingleToken(get_symbol(d.current_market), d.current_amount)
            entity == [fresh EXCEPT
                          !.original_collateral = original,
                          !.borrowed_collateral = borrowed,
                          !.collateral = SumCollateral(original, borrowed),
                          !.debt = SingleToken(get_symbol(d.market), d.amount)]
        IN  Result(Put(store, d.id, entity), "ok")

\* loan creation without the except branch: the usual layout or nothing
process_new_loan_event_primary_only(store, e) ==
    LET d == e.data IN
    IF ~Known(d.market) \/ ~Known(d.current_market) THEN Result(store, "KeyError")
    ELSE IF DataLength(d) <= 14 THEN Result(store, "IndexError")
    ELSE IF ~Known(Data14(d)) THEN Result(store, "KeyError")
    ELSE IF DataLength(d) <= 17 THEN Result(store, "IndexError")
    ELSE
        LET fresh == HashstackLoanEntity(d.owner, d.debt_category)
            original == SingleToken(get_symbol(Data14(d)), Data17(d))
            borrowed == SingleToken(get_symbol(d.current_market), d.current_amount)
            entity == [fresh EXCEPT
                          !.original_collateral = original,
                          !.borrowed_collateral = borrowed,
                          !.collateral = SumCollateral(original, borrowed),
                          !.debt = SingleToken(get_symbol(d.market), d.amount)]
        IN  Result(Put(store, d.id, entity), "ok")

process_new_loan_event(store, e) ==
    LET d == e.data IN
    IF ~Known(d.market) \/ ~Known(d.current_market) THEN Result(store, "KeyError")
    ELSE IF DataLength(d) <= 14 THEN Result(store, "IndexError")
    ELSE IF Known(Data14(d)) /\ DataLength(d) <= 17 THEN Result(store, "IndexError")
    ELSE IF ~Known(Data14(d)) /\ ~Known(Data13(d)) THEN Result(store, "KeyError")
    ELSE IF ~Known(Data14(d)) /\ DataLength(d) <= 16 THEN Result(store, "IndexError")
    ELSE
        LET original_collateral_token ==
                IF Known(Data14(d)) THEN get_symbol(Data14(d)) ELSE get_symbol(Data13(d))
            original_collateral_face_amount ==
                IF Known(Data14(d)) THEN Data17(d) ELSE Data16(d)
            fresh == HashstackLoanEntity(d.owner, d.debt_category)
            original == SingleToken(original_collateral_token, original_collateral_face_amount)
            borrowed == SingleToken(get_symbol(d.current_market), d.current_amount)
            entity == [fresh EXCEPT
                          !.original_collateral = original,
                          !.borrowed_collateral = borrowed,
                          !.collateral = SumCollateral(original, borrowed),
                          !.debt = SingleToken(get_symbol(d.market), d.amount)]
        IN  Result(Put(store, d.id, entity), "ok")

\* a collateral event that makes an empty entity for a loan id that has none
process_collateral_added_event_creating(store, e) ==
    LET d == e.data IN
    IF ~Known(d.market) THEN Result(store, "KeyError")
    ELSE LET entity == IF Has(store, d.loan_id) THEN store[d.loan_id]
                       ELSE HashstackLoanEntity("", 0)
         IN  Result(Put(store, d.loan_id,
                        RewriteOriginal(entity, get_symbol(d.market), d.current_amount)),
                    "ok")

process_collateral_added_event(store, e) ==
    LET d == e.data IN
    IF ~Known(d.market) THEN Result(store, "KeyError")
    ELSE IF ~Has(store, d.loan_id) THEN Result(store, "LookupError")
    ELSE Result(Put(store, d.loan_id,
                    RewriteOriginal(store[d.loan_id], get_symbol(d.market), d.current_amount)),
                "ok")

process_collateral_withdrawal_event(store, e) ==
    LET d == e.data IN
    IF ~Known(d.market) THEN Result(store, "KeyError")
    ELSE IF ~Has(store, d.loan_id) THEN Result(store, "LookupError")
    ELSE Result(Put(store, d.loan_id,
                    RewriteOriginal(store[d.loan_id], get_symbol(d.market), d.current_amount)),
                "ok")

\* a loan withdrawal that does not look at the user of the event
process_loan_withdrawal_event_any_user(store, e) ==
    LET d == e.data IN
    IF ~Has(store, d.id) THEN Result(store, "LookupError")
    ELSE IF ~Known(d.market) \/ ~Known(d.current_market) THEN Result(store, "KeyError")
    ELSE
        LET rewritten == RewriteBorrowed(store[d.id], get_symbol(d.current_market),
                                         d.current_amount)
            entity == [rewritten EXCEPT
                          !.debt = SingleToken(get_symbol(d.market), d.amount),
                          !.debt_category = d.debt_category]
        IN  Result(Put(store, d.id, entity), "ok")

\* loan withdrawal that writes the event's debt into the debt that is there: the debt
\* in other tokens is kept
process_loan_withdrawal_event_merging(store, e) ==
    LET d == e.data IN
    IF ~Has(store, d.id) THEN Result(store, "LookupError")
    ELSE IF store[d.id].user # d.owner THEN Result(store, "AssertionError")
    ELSE IF ~Known(d.market) \/ ~Known(d.current_market) THEN Result(store, "KeyError")
    ELSE
        LET rewritten == RewriteBorrowed(store[d.id], get_symbol(d.current_market),
                                         d.current_amount)
            entity == [rewritten EXCEPT
                          !.debt = [store[d.id].debt EXCEPT ![get_symbol(d.market)] = d.amount],
                          !.debt_category = d.debt_category]
        IN  Result(Put(store, d.id, entity), "ok")

process_loan_withdrawal_event(store, e) ==
    LET d == e.data IN
    IF ~Has(store, d.id) THEN Result(store, "LookupError")
    ELSE IF store[d.id].user # d.owner THEN Result(store, "AssertionError")
    ELSE IF ~Known(d.market) \/ ~Known(d.current_market) THEN Result(store, "KeyError")
    ELSE
        LET rewritten == RewriteBorrowed(store[d.id], get_symbol(d.current_market),
                                         d.current_amount)
            entity == [rewritten EXCEPT
                          !.debt = SingleToken(get_symbol(d.market), d.amount),
                          !.debt_category = d.debt_category]
        IN  Result(Put(store, d.id, entity), "ok")

\* repayment that clears the original collateral as a liquidation does
process_loan_repaid_event_clearing(store, e) ==
    LET d == e.data IN
    IF ~Has(store, d.id) THEN Result(store, "LookupError")
    ELSE IF store[d.id].user # d.owner THEN Result(store, "AssertionError")
    ELSE IF ~Known(d.market) \/ ~Known(d.current_market) THEN Result(store, "KeyError")
    ELSE IF d.current_amount # 0 THEN Result(store, "AssertionError")
    ELSE
        LET borrowed == SingleToken(get_symbol(d.current_market), d.current_amount)
            entity == [store[d.id] EXCEPT
                          !.borrowed_collateral = borrowed,
                          !.original_collateral = TokenAmounts,
                          !.collateral = SumCollateral(TokenAmounts, borrowed),
                          !.debt = SingleToken(get_symbol(d.market), 0),
                          !.debt_category = d.debt_category]
        IN  Result(Put(store, d.id, entity), "ok")

\* a repayment that takes a borrowed collateral amount other than zero
process_loan_repaid_event_partial(store, e) ==
    LET d == e.data IN
    IF ~Has(store, d.id) THEN Result(store, "LookupError")
    ELSE IF store[d.id].user # d.owner THEN Result(store, "AssertionError")
    ELSE IF ~Known(d.market) \/ ~Known(d.current_market) THEN Result(store, "KeyError")
    ELSE
        LET rewritten == RewriteBorrowed(store[d.id], get_symbol(d.current_market),
                                         d.current_amount)
            entity == [rewritten EXCEPT
                          !.debt = SingleToken(get_symbol(d.market), 0),
                          !.debt_category = d.debt_category]
        IN  Result(Put(store, d.id, entity), "ok")

process_loan_repaid_event(store, e) ==
    LET d == e.data IN
    IF ~Has(store, d.id) THEN Result(store, "LookupError")
    ELSE IF store[d.id].user # d.owner THEN Result(store, "AssertionError")
    ELSE IF ~Known(d.market) \/ ~Known(d.current_market) THEN Result(store, "KeyError")
    ELSE IF d.current_amount # 0 THEN Result(store, "AssertionError")
    ELSE
        LET rewritten == RewriteBorrowed(store[d.id], get_symbol(d.current_market),
                                         d.current_amount)
            entity == [rewritten EXCEPT
                          !.debt = SingleToken(get_symbol(d.market), 0),
                          !.debt_category = d.debt_category]
        IN  Result(Put(store, d.id, entity), "ok")

\* a swap that takes whatever debt the new loan record carries
process_loan_swap_event_any_debt(store, e) ==
    LET d == e.data IN
    IF ~Has(store, d.id) THEN Result(store, "LookupError")
    ELSE IF store[d.id].user # d.owner THEN Result(store, "AssertionError")
    ELSE IF d.new_id # d.id THEN Result(store, "AssertionError")
    ELSE IF d.new_owner # d.owner THEN Result(store, "AssertionError")
    ELSE IF ~Known(d.new_market) \/ ~Known(d.new_current_market)
         THEN Result(store, "KeyError")
    ELSE
        LET rewritten == RewriteBorrowed(store[d.new_id], get_symbol(d.new_current_market),
                                         d.new_current_amount)
            entity == [rewritten EXCEPT
                          !.debt = SingleToken(get_symbol(d.new_market), d.new_amount),
                          !.debt_category = d.new_debt_category]
        IN  Result(Put(store, d.new_id, entity), "ok")

process_loan_swap_event(store, e) ==
    LET d == e.data IN
    IF ~Has(store, d.id) THEN Result(store, "LookupError")
    ELSE IF store[d.id].user # d.owner THEN Result(store, "AssertionError")
    ELSE IF d.new_id # d.id THEN Result(store, "AssertionError")
    ELSE IF d.new_owner # d.owner THEN Result(store, "AssertionError")
    ELSE IF ~Known(d.new_market) \/ ~Known(d.new_current_market)
         THEN Result(store, "KeyError")
    ELSE
        LET rewritten == RewriteBorrowed(store[d.new_id], get_symbol(d.new_current_market),
                                         d.new_current_amount)
            new_debt == SingleToken(get_symbol(d.new_market), d.new_amount)
            entity == [rewritten EXCEPT
                          !.debt = new_debt,
                          !.debt_category = d.new_debt_category]
        IN  IF store[d.id].debt # new_debt
            THEN Result(Put(store, d.new_id, rewritten), "AssertionError")
            ELSE Result(Put(store, d.new_id, entity), "ok")

process_loan_interest_deducted_event(store, e) ==
    LET d == e.data IN
    IF ~Known(d.market) THEN Result(store, "KeyError")
    ELSE IF ~Has(store, d.loan_id) THEN Result(store, "LookupError")
    ELSE Result(Put(store, d.loan_id,
                    RewriteOriginal(store[d.loan_id], get_symbol(d.market), d.current_amount)),
                "ok")

\* liquidation that keeps the original collateral
process_liquidated_event_keeping(store, e) ==
    LET d == e.data IN
    IF ~Has(store, d.id) THEN Result(store, "LookupError")
    ELSE IF store[d.id].user # d.owner THEN Result(store, "AssertionError")
    ELSE IF ~Known(d.market) \/ ~Known(d.current_market) THEN Result(store, "KeyError")
    ELSE IF d.current_amount # 0 THEN Result(store, "AssertionError")
    ELSE
        LET rewritten == RewriteBorrowed(store[d.id], get_symbol(d.current_market),
                                         d.current_amount)
            entity == [rewritten EXCEPT
                          !.debt = SingleToken(get_symbol(d.market), 0),
                          !.debt_category = d.debt_category]
        IN  Result(Put(store, d.id, entity), "ok")

process_liquidated_event(store, e) ==
    LET d == e.data IN
    IF ~Has(store, d.id) THEN Result(store, "LookupError")
    ELSE IF store[d.id].user # d.owner THEN Result(store, "AssertionError")
    ELSE IF ~Known(d.market) \/ ~Known(d.current_market) THEN Result(store, "KeyError")
    ELSE IF d.current_amount # 0 THEN Result(store, "AssertionError")
    ELSE
        LET borrowed == SingleToken(get_symbol(d.current_market), d.current_amount)
            original == TokenAmounts
            entity == [store[d.id] EXCEPT
                          !.borrowed_collateral = borrowed,
                          !.original_collateral = original,
                          !.collateral = SumCollateral(original, borrowed),
                          !.debt = SingleToken(get_symbol(d.market), 0),
                          !.debt_category = d.debt_category]
        IN  Result(Put(store, d.id, entity), "ok")

\* EVENTS_METHODS_MAPPING: key_name -> handler
EVENTS_METHODS_MAPPING(store, e) ==
    CASE e.key_name = "new_loan" -> process_new_loan_event(store, e)
      [] e.key_name = "collateral_added" -> process_collateral_added_event(store, e)
      [] e.key_name = "collateral_withdrawal" -> process_collateral_withdrawal_event(store, e)
      [] e.key_name = "loan_withdrawal" -> process_loan_withdrawal_event(store, e)
      [] e.key_name = "loan_repaid" -> process_loan_repaid_event(store, e)
      [] e.key_name = "loan_swap" -> process_loan_swap_event(store, e)
      [] e.key_name = "loan_interest_deducted" -> process_loan_interest_deducted_event(store, e)
      [] e.key_name = "liquidated" -> process_liquidated_event(store, e)

\* the loan id an event is about
TargetOf(e) == IF e.key_name \in {"collateral_added", "collateral_withdrawal",
                                  "loan_interest_deducted"}
               THEN e.data.loan_id ELSE e.data.id

----------------------------------------------------------------------------
(* get_events: the order column and the sort *)

\* tuple(EVENTS_METHODS_MAPPING): the event types fetched, each with a handler
KeyNames == {"new_loan", "collateral_added", "collateral_withdrawal", "loan_withdrawal",
             "loan_repaid", "loan_swap", "loan_interest_deducted", "liquidated"}

\* the ranks with loan_withdrawal and loan_repaid exchanged
OrderMapSwapped ==
    [new_loan |-> 0,
     loan_withdrawal |-> 4,
     loan_repaid |-> 3,
     loan_swap |-> 1,
     collateral_added |-> 6,
     collateral_withdrawal |-> 7,
     loan_interest_deducted |-> 5,
     liquidated |-> 2]

\* the ranks with loan_repaid ahead of the liquidation and the loan withdrawal
OrderMapRepaidEarly ==
    [new_loan |-> 0,
     loan_withdrawal |-> 4,
     loan_repaid |-> 2,
     loan_swap |-> 1,
     collateral_added |-> 6,
     collateral_withdrawal |-> 7,
     loan_interest_deducted |-> 5,
     liquidated |-> 3]

\* the dictionary mapped over the key_name column
OrderMap ==
    [new_loan |-> 0,
     loan_withdrawal |-> 3,
     loan_repaid |-> 4,
     loan_swap |-> 1,
     collateral_added |-> 6,
     collateral_withdrawal |-> 7,
     loan_interest_deducted |-> 5,
     liquidated |-> 2]

\* transaction hashes are strings, compared as strings
Hashes == {"0x0a", "0x0b"}
HashRank == [h \in Hashes |-> IF h = "0x0a" THEN 1 ELSE 2]

\* events["order"] = events["key_name"].map(...)
WithOrder(e) == e @@ [order |-> OrderMap[e.key_name]]

\* row a sorts strictly before row b on ["block_number", "transaction_hash", "order"]
SortsBefore(a, b) ==
    \/ a.block_number < b.block_number
    \/ /\ a.block_number = b.block_number
       /\ HashRank[a.transaction_hash] < HashRank[b.transaction_hash]
    \/ /\ a.block_number = b.block_number
       /\ a.transaction_hash = b.transaction_hash
       /\ a.order < b.order

Front(s) == SubSeq(s, 1, Len(s) - 1)
Last(s) == s[Len(s)]

RECURSIVE InsertRow(_, _)
\* row x put behind every row of the sorted frame s that does not sort after it
InsertRow(s, x) ==
    IF s = <<>> THEN <<x>>
    ELSE IF SortsBefore(x, Last(s)) THEN Append(InsertRow(Front(s), x), Last(s))
    ELSE Append(s, x)

\* the frame left in the order it came in
sort_values_unsorted(s) == s

RECURSIVE sort_values(_)
\* events.sort_values([...]): rows with equal keys keep the order they came in
sort_values(s) ==
    IF s = <<>> THEN <<>> ELSE InsertRow(sort_values(Front(s)), Last(s))

\* get_events applied to the frame the event source returned
get_events(frame) == sort_values([i \in 1..Len(frame) |-> WithOrder(frame[i])])

----------------------------------------------------------------------------
(* The events a replay can meet *)

\* (token address, face amount) pairs carried by an event: collateral amounts are
\* added up, debt amounts are only replaced and compared
Holdings == (DOMAIN SymbolOf) \X Amounts
DebtHoldings == (DOMAIN SymbolOf) \X {0, MaxAmount}

LoanRecord(id, owner, debt, borrowed, debt_category) ==
    [id |-> id, owner |-> owner, market |-> debt[1], amount |-> debt[2],
     current_market |-> borrowed[1], current_amount |-> borrowed[2],
     debt_category |-> debt_category]

CollateralRecord(holding, loan_id) ==
    [market |-> holding[1], current_amount |-> holding[2], loan_id |-> loan_id]

NewLoanRecord(r, layout, holding) ==
    [id |-> r.id, owner |-> r.owner, market |-> r.market, amount |-> r.amount,
     current_market |-> r.current_market, current_amount |-> r.current_amount,
     debt_category |-> r.debt_category, layout |-> layout,
     collateral_market |-> holding[1], collateral_current_amount |-> holding[2]]

LoanSwapRecord(id, owner, r) ==
    [id |-> id, owner |-> owner, new_id |-> r.id, new_owner |-> r.owner,
     new_market |-> r.market, new_amount |-> r.amount,
     new_current_market |-> r.current_market, new_current_amount |-> r.current_amount,
     new_debt_category |-> r.debt_category]

LoanRecordsOf(ids) ==
    {LoanRecord(id, owner, debt, borrowed, c) :
        id \in ids, owner \in Users, debt \in DebtHoldings, borrowed \in Holdings,
        c \in Categories}

LoanRecords == LoanRecordsOf(LoanIds)

CollateralRecords == {CollateralRecord(h, id) : h \in Holdings, id \in LoanIds}

NewLoanData == {NewLoanRecord(r, "primary", h) : r \in LoanRecords, h \in Holdings}

\* the new loan record of a swap may name another loan id than the old one
LoanSwapData ==
    {LoanSwapRecord(id, owner, r) :
        id \in LoanIds, owner \in Users, r \in LoanRecordsOf(LoanIds \cup {8})}

DataOf(key_name) ==
    CASE key_name = "new_loan" -> NewLoanData
      [] key_name = "loan_swap" -> LoanSwapData
      [] key_name \in {"loan_withdrawal", "loan_repaid", "liquidated"} -> LoanRecords
      [] OTHER -> CollateralRecords

EventsOf(key_name) == {WithOrder(Event(key_name, 1, "0x0a", d)) : d \in DataOf(key_name)}

----------------------------------------------------------------------------
(* Replay of an event stream, one handler call per step *)

NoResult == [kind |-> "none", num |-> 0, den |-> 1]

NoRisk == [fn |-> "none", collateral_usd |-> 0, debt_usd |-> 0, debt_category |-> 0,
           threshold |-> 0, result |-> NoResult]

NoCall == [key_name |-> "none", loan_id |-> 0, present |-> FALSE, outcome |-> "none"]

\* what is seen of a handler call: its event type, the loan id it names, whether that
\* id had an entity when the call started, and how the call ended
CallOf(store, e, outcome) ==
    [key_name |-> e.key_name, loan_id |-> TargetOf(e), present |-> Has(store, TargetOf(e)),
     outcome |-> outcome]

Init == /\ loan_entities = EmptyStore
        /\ last = NoCall
        /\ raw = <<>>
        /\ events = <<>>
        /\ cursor = 0
        /\ snapshot = EmptyStore
        /\ pc = "idle"
        /\ risk = NoRisk

\* one call of a handler on event e
Call(e) ==
    LET r == EVENTS_METHODS_MAPPING(loan_entities, e) IN
    /\ loan_entities' = r.store
    /\ last' = CallOf(loan_entities, e, r.outcome)
    /\ UNCHANGED <<raw, events, cursor, snapshot, pc, risk>>

NewLoanEvents == EventsOf("new_loan")
CollateralAddedEvents == EventsOf("collateral_added")
CollateralWithdrawalEvents == EventsOf("collateral_withdrawal")
LoanWithdrawalEvents == EventsOf("loan_withdrawal")
LoanRepaidEvents == EventsOf("loan_repaid")
LoanSwapEvents == EventsOf("loan_swap")
LoanInterestDeductedEvents == EventsOf("loan_interest_deducted")
LiquidatedEvents == EventsOf("liquidated")

NewLoan == \E e \in NewLoanEvents : Call(e)
CollateralAdded == \E e \in CollateralAddedEvents : Call(e)
CollateralWithdrawal == \E e \in CollateralWithdrawalEvents : Call(e)
LoanWithdrawal == \E e \in LoanWithdrawalEvents : Call(e)
LoanRepaid == \E e \in LoanRepaidEvents : Call(e)
LoanSwap == \E e \in LoanSwapEvents : Call(e)
LoanInterestDeducted == \E e \in LoanInterestDeductedEvents : Call(e)
Liquidated == \E e \in LiquidatedEvents : Call(e)

Next == \/ NewLoan
        \/ CollateralAdded
        \/ CollateralWithdrawal
        \/ LoanWithdrawal
        \/ LoanRepaid
        \/ LoanSwap
        \/ LoanInterestDeducted
        \/ Liquidated

Spec == Init /\ [][Next]_vars

----------------------------------------------------------------------------
(* get_events on the frames an event source can return *)

\* the frames of at most MaxBatch rows over a set of events
Frames(universe) == UNION {[1..n -> universe] : n \in 0..MaxBatch}

\* one payload per event type: the order of a frame depends on no payload
SampleData(key_name) == CHOOSE d \in DataOf(key_name) : TRUE

Positions == {<<1, "0x0a">>, <<1, "0x0b">>, <<2, "0x0a">>}

OrderEvents == {Event(k, p[1], p[2], SampleData(k)) : k \in KeyNames, p \in Positions}

OrderFrames == Frames(OrderEvents)

\* a call of get_events: fetch, add the order column, sort, return
GetEvents ==
    /\ pc = "idle"
    /\ \E frame \in OrderFrames :
        /\ raw' = frame
        /\ events' = get_events(frame)
    /\ pc' = "ordered"
    /\ UNCHANGED <<loan_entities, last, cursor, snapshot, risk>>

SpecOrder == Init /\ [][GetEvents]_vars

----------------------------------------------------------------------------
(* Replay of a batch: get_events, then every event in order through its     *)
(* handler; a failing event aborts the batch as a whole.                    *)

ETH == "0x049d"
USDC == "0x053c"

ReplayEvents ==
    {Event("new_loan", 1, "0x0a",
           NewLoanRecord(LoanRecord(7, "0xu1", <<ETH, MaxAmount>>, <<USDC, MaxAmount>>, 1),
                         "primary", <<a, MaxAmount>>)) : a \in {USDC, "0xdead"}}
    \cup {Event("collateral_added", b, "0x0a", CollateralRecord(<<ETH, n>>, 7)) :
            b \in {1, 2}, n \in {0, MaxAmount}}
    \cup {Event("collateral_withdrawal", b, "0x0a", CollateralRecord(<<USDC, MaxAmount>>, 7)) :
            b \in {1, 2}}
    \cup {Event("loan_repaid", 2, "0x0a",
                LoanRecord(7, u, <<ETH, MaxAmount>>, <<USDC, 0>>, 2)) : u \in Users}

ReplayFrames == Frames(ReplayEvents)

\* the store left as the failing handler left it
AbortedStorePartial(before_batch, partial) == partial

\* the store a batch leaves when one of its events fails: all or nothing
AbortedStore(before_batch, partial) == before_batch

Fetch ==
    /\ pc = "idle"
    /\ \E frame \in ReplayFrames :
        /\ raw' = frame
        /\ events' = get_events(frame)
    /\ cursor' = 0
    /\ snapshot' = loan_entities
    /\ pc' = "replay"
    /\ UNCHANGED <<loan_entities, last, risk>>

\* the next event of the batch is applied
ProcessEvent ==
    /\ pc = "replay"
    /\ cursor < Len(events)
    /\ LET e == events[cursor + 1]
           r == EVENTS_METHODS_MAPPING(loan_entities, e)
       IN  /\ r.outcome = "ok"
           /\ loan_entities' = r.store
           /\ last' = CallOf(loan_entities, e, r.outcome)
    /\ cursor' = cursor + 1
    /\ UNCHANGED <<raw, events, snapshot, pc, risk>>

\* the next event of the batch fails: the replay of the batch is aborted
Abort ==
    /\ pc = "replay"
    /\ cursor < Len(events)
    /\ LET e == events[cursor + 1]
           r == EVENTS_METHODS_MAPPING(loan_entities, e)
       IN  /\ r.outcome # "ok"
           /\ loan_entities' = AbortedStore(snapshot, r.store)
           /\ last' = CallOf(loan_entities, e, r.outcome)
    /\ pc' = "failed"
    /\ UNCHANGED <<raw, events, cursor, snapshot, risk>>

Finish ==
    /\ pc = "replay"
    /\ cursor = Len(events)
    /\ pc' = "done"
    /\ UNCHANGED <<loan_entities, last, raw, events, cursor, snapshot, risk>>

NextReplay == Fetch \/ ProcessEvent \/ Abort \/ Finish

SpecReplay == Init /\ [][NextReplay]_vars

RECURSIVE ReplayFrom(_, _, _)
\* the store the replay of frame s leaves, started in store with snapshot before_batch
ReplayFrom(before_batch, store, s) ==
    IF s = <<>> THEN store
    ELSE LET r == EVENTS_METHODS_MAPPING(store, Head(s)) IN
         IF r.outcome = "ok" THEN ReplayFrom(before_batch, r.store, Tail(s))
         ELSE AbortedStore(before_batch, r.store)

----------------------------------------------------------------------------
(* The risk formulas of HashstackLoanEntity, called with the collateral and  *)
(* debt values given.  USD values are whole numbers; a quotient is kept as  *)
(* a fraction; thresholds are kept in hundredths.                           *)

Inf == [kind |-> "Inf", num |-> 0, den |-> 1]

\* decimal division: a / b
Divide(a, b) ==
    IF b = 0 THEN [kind |-> "ZeroDivision", num |-> a, den |-> b]
    ELSE [kind |-> "ratio", num |-> a, den |-> b]

\* the sentinel returned only when there is collateral
compute_health_factor_positive(collateral_usd, debt_usd) ==
    IF debt_usd = 0 /\ collateral_usd > 0 THEN Inf ELSE Divide(collateral_usd, debt_usd)

compute_health_factor(collateral_usd, debt_usd) ==
    IF debt_usd = 0 THEN Inf ELSE Divide(collateral_usd, debt_usd)

\* the thresholds of categories 1 and 2 exchanged
StandardizedThresholdSwapped(debt_category) ==
    IF debt_category = 1 THEN 105 ELSE IF debt_category = 2 THEN 106 ELSE 104

\* health_factor_liquidation_threshold of compute_standardized_health_factor, times 100
StandardizedThreshold(debt_category) ==
    IF debt_category = 1 THEN 106 ELSE IF debt_category = 2 THEN 105 ELSE 104

compute_standardized_health_factor(debt_category, collateral_usd, debt_usd) ==
    LET collateral_usd_threshold == StandardizedThreshold(debt_category) * debt_usd IN
    IF collateral_usd_threshold = 0 THEN Inf
    ELSE Divide(100 * collateral_usd, collateral_usd_threshold)

\* health_factor_liquidation_threshold of compute_liquidable_debt_at_price, times 100
LiquidableThreshold(debt_category) ==
    IF debt_category = 1 THEN 106 ELSE IF debt_category = 2 THEN 105 ELSE 104

Usd == 0..MaxUsd
RiskCategories == 0..MaxCategory

ComputeHealthFactor ==
    \E c \in Usd, d \in Usd :
        /\ risk' = [fn |-> "compute_health_factor", collateral_usd |-> c, debt_usd |-> d,
                    debt_category |-> 0, threshold |-> 0,
                    result |-> compute_health_factor(c, d)]
        /\ UNCHANGED <<loan_entities, last, raw, events, cursor, snapshot, pc>>

ComputeStandardizedHealthFactor ==
    \E c \in Usd, d \in Usd, k \in RiskCategories :
        /\ risk' = [fn |-> "compute_standardized_health_factor", collateral_usd |-> c,
                    debt_usd |-> d, debt_category |-> k,
                    threshold |-> StandardizedThreshold(k),
                    result |-> compute_standardized_health_factor(k, c, d)]
        /\ UNCHANGED <<loan_entities, last, raw, events, cursor, snapshot, pc>>

\* the threshold compute_liquidable_debt_at_price holds a loan's health factor against
ComputeLiquidationThreshold ==
    \E k \in RiskCategories :
        /\ risk' = [fn |-> "compute_liquidable_debt_at_price", collateral_usd |-> 0,
                    debt_usd |-> 0, debt_category |-> k,
                    threshold |-> LiquidableThreshold(k), result |-> NoResult]
        /\ UNCHANGED <<loan_entities, last, raw, events, cursor, snapshot, pc>>

NextRisk == ComputeHealthFactor \/ ComputeStandardizedHealthFactor
            \/ ComputeLiquidationThreshold

SpecRisk == Init /\ [][NextRisk]_vars

----------------------------------------------------------------------------
(* USD values of a loan entity.  A USD value is kept as a whole numerator    *)
(* over UsdScale, so that amount / decimal factor * price stays exact.      *)

\* src.constants.TOKEN_DECIMAL_FACTORS: face units per whole token, small stand-ins
TOKEN_DECIMAL_FACTORS == [t \in Tokens |-> IF t = "ETH" THEN 2 ELSE 1]

\* HashstackLoanEntity.COLLATERAL_FACTORS: neutral for every token
COLLATERAL_FACTORS == [t \in Tokens |-> 1]

\* a common denominator of the decimal factors
UsdScale == TOKEN_DECIMAL_FACTORS["ETH"] * TOKEN_DECIMAL_FACTORS["USDC"]

PriceMissing == [kind |-> "PriceMissing", num |-> 0, den |-> 1]

Value(num) == [kind |-> "value", num |-> num, den |-> UsdScale]

RECURSIVE SumOver(_, _)
\* sum(f[t] for t in set)
SumOver(f, set) ==
    IF set = {} THEN 0
    ELSE LET t == CHOOSE x \in set : TRUE IN f[t] + SumOver(f, set \ {t})

\* a token the entity holds an amount of has no entry in the price map
Unpriced(amounts, prices) == \E t \in Tokens : amounts[t] # 0 /\ t \notin DOMAIN prices

\* LoanEntity.compute_debt_usd: sum of amount / decimal factor * price
compute_debt_usd(entity, prices) ==
    IF Unpriced(entity.debt, prices) THEN PriceMissing
    ELSE Value(SumOver([t \in Tokens |->
                   IF entity.debt[t] = 0 THEN 0
                   ELSE entity.debt[t] * (UsdScale \div TOKEN_DECIMAL_FACTORS[t]) * prices[t]],
               Tokens))

\* LoanEntity.compute_collateral_usd: sum of amount / decimal factor * collateral
\* factor * price
compute_collateral_usd(entity, prices) ==
    IF Unpriced(entity.collateral, prices) THEN PriceMissing
    ELSE Value(SumOver([t \in Tokens |->
                   IF entity.collateral[t] = 0 THEN 0
                   ELSE entity.collateral[t] * (UsdScale \div TOKEN_DECIMAL_FACTORS[t])
                        * COLLATERAL_FACTORS[t] * prices[t]],
               Tokens))

\* LoanEntity.has_collateral / has_debt: some token amount is not zero
has_collateral(entity) == \E t \in Tokens : entity.collateral[t] # 0
has_debt(entity) == \E t \in Tokens : entity.debt[t] # 0

\* compute_debt_to_be_liquidated(debt_usd = debt_usd)
compute_debt_to_be_liquidated(debt_usd) == debt_usd

----------------------------------------------------------------------------
(* The risk queries of HashstackState: store and arguments to store, the     *)
(* caller's price map after the call, and the result.                       *)

\* prices with the entry of token set to price
SetPrice(prices, token, price) ==
    [t \in DOMAIN prices \cup {token} |-> IF t = token THEN price ELSE prices[t]]

\* the override written into the caller's own price map
ChangedPricesInPlace(prices, collateral_token, collateral_token_price) ==
    [caller |-> SetPrice(prices, collateral_token, collateral_token_price),
     changed |-> SetPrice(prices, collateral_token, collateral_token_price)]

\* changed_prices = copy.deepcopy(prices); changed_prices[collateral_token] = ...
ChangedPrices(prices, collateral_token, collateral_token_price) ==
    [caller |-> prices,
     changed |-> SetPrice(prices, collateral_token, collateral_token_price)]

\* the comparison that lets a loan at its threshold through
AboveThreshold(health_factor, threshold) ==
    \/ health_factor.kind = "Inf"
    \/ /\ health_factor.kind = "ratio"
       /\ 100 * health_factor.num > threshold * health_factor.den

\* health_factor >= health_factor_liquidation_threshold, the threshold in hundredths
AtLeastThreshold(health_factor, threshold) ==
    \/ health_factor.kind = "Inf"
    \/ /\ health_factor.kind = "ratio"
       /\ 100 * health_factor.num >= threshold * health_factor.den

\* the body of the scan for one loan entity: skipped, added with its debt_usd, or the
\* query ends on a missing price
Liquidable(entity, changed_prices, debt_token) ==
    IF ~(entity.debt[debt_token] > 0) THEN [kind |-> "skip", num |-> 0]
    ELSE LET debt_usd == compute_debt_usd(entity, changed_prices)
             collateral_usd == compute_collateral_usd(entity, changed_prices)
         IN  IF debt_usd.kind = "PriceMissing" \/ collateral_usd.kind = "PriceMissing"
             THEN [kind |-> "PriceMissing", num |-> 0]
             ELSE IF AtLeastThreshold(compute_health_factor(collateral_usd.num, debt_usd.num),
                                      LiquidableThreshold(entity.debt_category))
             THEN [kind |-> "skip", num |-> 0]
             ELSE [kind |-> "add", num |-> compute_debt_to_be_liquidated(debt_usd.num)]

RECURSIVE ScanLoans(_, _, _, _, _)
\* for _, loan_entity in self.loan_entities.items(): ... max_liquidated_amount += ...
ScanLoans(store, ids, changed_prices, debt_token, max_liquidated_amount) ==
    IF ids = {} THEN Value(max_liquidated_amount)
    ELSE LET i == CHOOSE x \in ids : \A y \in ids : x <= y
             step == Liquidable(store[i], changed_prices, debt_token)
         IN  IF step.kind = "PriceMissing" THEN PriceMissing
             ELSE ScanLoans(store, ids \ {i}, changed_prices, debt_token,
                            max_liquidated_amount + step.num)

compute_liquidable_debt_at_price(store, prices, collateral_token, collateral_token_price, debt_token) ==
    LET p == ChangedPrices(prices, collateral_token, collateral_token_price) IN
    [store |-> store, prices |-> p.caller,
     result |-> ScanLoans(store, DOMAIN store, p.changed, debt_token, 0)]

\* the number of loans counted instead of the number of users
compute_number_of_active_users_per_loan(store) ==
    [store |-> store,
     result |-> Cardinality({i \in DOMAIN store :
                                has_collateral(store[i]) \/ has_debt(store[i])})]

\* the users of the loans with collateral: a loan with debt alone is left out
compute_number_of_active_users_with_collateral(store) ==
    [store |-> store,
     result |-> Cardinality({store[i].user :
                                i \in {j \in DOMAIN store : has_collateral(store[j])}})]

compute_number_of_active_users(store) ==
    [store |-> store,
     result |-> Cardinality({store[i].user :
                                i \in {j \in DOMAIN store :
                                          has_collateral(store[j]) \/ has_debt(store[j])}})]

compute_number_of_active_borrowers(store) ==
    [store |-> store,
     result |-> Cardinality({store[i].user :
                                i \in {j \in DOMAIN store : has_debt(store[j])}})]

----------------------------------------------------------------------------
(* A store of several loans: a stream of events for two loan ids, and a     *)
(* risk query on the snapshot the replay of the stream left.                *)

\* the override prices of a query range over 0 and 20..MaxPrice
MaxPrice == 22

PortfolioIds == {7, 8}

\* loan 7 is named with either user, loan 8 with the first
PortfolioOwners == {<<7, "0xu1">>, <<7, "0xu2">>, <<8, "0xu1">>}

PortfolioLoanRecords(debts, categories) ==
    {LoanRecord(o[1], o[2], debt, <<USDC, 0>>, c) :
        o \in PortfolioOwners, debt \in debts, c \in categories}

PortfolioEvents ==
    {Event("new_loan", 1, "0x0a", NewLoanRecord(r, "primary", <<USDC, MaxAmount>>)) :
        r \in PortfolioLoanRecords({<<ETH, MaxAmount>>, <<USDC, MaxAmount>>}, Categories)}
    \cup {Event("collateral_added", 1, "0x0a", CollateralRecord(<<USDC, 0>>, id)) :
            id \in PortfolioIds}
    \cup {Event("collateral_withdrawal", 1, "0x0a", CollateralRecord(<<USDC, MaxAmount>>, id)) :
            id \in PortfolioIds}
    \cup {Event("loan_interest_deducted", 1, "0x0a",
                CollateralRecord(<<USDC, MaxAmount>>, id)) : id \in PortfolioIds}
    \cup {Event("loan_withdrawal", 1, "0x0a", r) :
            r \in PortfolioLoanRecords({<<ETH, MaxAmount>>}, {1})}
    \cup {Event("loan_repaid", 1, "0x0a", r) :
            r \in PortfolioLoanRecords({<<ETH, MaxAmount>>}, {2})}
    \cup {Event("loan_swap", 1, "0x0a", LoanSwapRecord(r.id, r.owner, r)) :
            r \in PortfolioLoanRecords({<<ETH, MaxAmount>>}, {2})}
    \cup {Event("liquidated", 1, "0x0a", r) :
            r \in PortfolioLoanRecords({<<ETH, MaxAmount>>}, {1})}

\* the price maps a caller hands in: whole tokens at 40 and 20 USD, or an entry missing
BasePrices == [t \in Tokens |-> IF t = "ETH" THEN 40 ELSE 20]
PriceMaps == {[t \in held |-> BasePrices[t]] : held \in SUBSET Tokens}
OverridePrices == {0} \cup (20..MaxPrice)

\* one more event of the stream is replayed
ApplyEvent ==
    /\ pc = "idle"
    /\ \E e \in PortfolioEvents :
        LET r == EVENTS_METHODS_MAPPING(loan_entities, e) IN
        /\ loan_entities' = r.store
        /\ last' = CallOf(loan_entities, e, r.outcome)
    /\ UNCHANGED <<raw, events, cursor, snapshot, pc, risk>>

QueryLiquidableDebt ==
    /\ pc = "idle"
    /\ \E prices \in PriceMaps, collateral_token \in Tokens,
          collateral_token_price \in OverridePrices, debt_token \in Tokens :
        LET q == compute_liquidable_debt_at_price(loan_entities, prices, collateral_token,
                                                  collateral_token_price, debt_token)
        IN  /\ loan_entities' = q.store
            /\ risk' = [fn |-> "compute_liquidable_debt_at_price", prices |-> prices,
                        prices_after |-> q.prices, collateral_token |-> collateral_token,
                        collateral_token_price |-> collateral_token_price,
                        debt_token |-> debt_token, result |-> q.result]
    /\ pc' = "queried"
    /\ UNCHANGED <<last, raw, events, cursor, snapshot>>

QueryActiveUsers ==
    /\ pc = "idle"
    /\ LET q == compute_number_of_active_users(loan_entities) IN
        /\ loan_entities' = q.store
        /\ risk' = [fn |-> "compute_number_of_active_users", result |-> q.result]
    /\ pc' = "queried"
    /\ UNCHANGED <<last, raw, events, cursor, snapshot>>

QueryActiveBorrowers ==
    /\ pc = "idle"
    /\ LET q == compute_number_of_active_borrowers(loan_entities) IN
        /\ loan_entities' = q.store
        /\ risk' = [fn |-> "compute_number_of_active_borrowers", result |-> q.result]
    /\ pc' = "queried"
    /\ UNCHANGED <<last, raw, events, cursor, snapshot>>

NextPortfolio == ApplyEvent \/ QueryLiquidableDebt \/ QueryActiveUsers \/ QueryActiveBorrowers

SpecPortfolio == Init /\ [][NextPortfolio]_vars

----------------------------------------------------------------------------
(* Decoding of new_loan events: the loan record is followed by a collateral  *)
(* record whose cells sit at 14 and 17, or at 13 and 16, or are cut off.    *)

Layouts == {"primary", "shifted", "truncated"}

\* loan records of known tokens; the collateral record may name any address
DecodeRecords ==
    {LoanRecord(id, owner, <<"0x049d", MaxAmount>>, <<"0x053c", 0>>, c) :
        id \in LoanIds, owner \in Users, c \in Categories}

DecodeData ==
    {NewLoanRecord(r, layout, h) :
        r \in DecodeRecords, layout \in Layouts, h \in Addresses \X Amounts}

DecodeEvents == {WithOrder(Event("new_loan", 1, "0x0a", d)) : d \in DecodeData}

\* one call of process_new_loan_event; raw keeps the row that was handed over
DecodeNewLoan ==
    \E e \in DecodeEvents :
        LET r == process_new_loan_event(loan_entities, e) IN
        /\ loan_entities' = r.store
        /\ last' = CallOf(loan_entities, e, r.outcome)
        /\ raw' = <<e>>
        /\ UNCHANGED <<events, cursor, snapshot, pc, risk>>

SpecDecode == Init /\ [][DecodeNewLoan]_vars

----------------------------------------------------------------------------
(* Properties *)

AllZero(amounts) == \A t \in Tokens : amounts[t] = 0

NonNewLoanEvents ==
    CollateralAddedEvents \cup CollateralWithdrawalEvents \cup LoanWithdrawalEvents
    \cup LoanRepaidEvents \cup LoanSwapEvents \cup LoanInterestDeductedEvents
    \cup LiquidatedEvents

\* C1: in every state reached by replaying events, every loan entity of the store has
\* collateral[t] = original_collateral[t] + borrowed_collateral[t] for every known token t.
CollateralIsSum ==
    \A i \in DOMAIN loan_entities : \A t \in Tokens :
        loan_entities[i].collateral[t] =
            loan_entities[i].original_collateral[t] + loan_entities[i].borrowed_collateral[t]

\* a handler has just rewritten a loan that holds original and borrowed collateral in
\* the same token
CollateralIsSumWitness ==
    /\ last.outcome = "ok"
    /\ \E i \in DOMAIN loan_entities : \E t \in Tokens :
        /\ loan_entities[i].original_collateral[t] > 0
        /\ loan_entities[i].borrowed_collateral[t] > 0
        /\ loan_entities[i].collateral[t] > loan_entities[i].original_collateral[t]

----------------------------------------------------------------------------

Injective(p) == \A i, j \in DOMAIN p : i # j => p[i] # p[j]

\* the frames that hold the rows of frame in another order
PermutationsOf(frame) ==
    {[i \in 1..Len(frame) |-> frame[p[i]]] :
        p \in {q \in [1..Len(frame) -> 1..Len(frame)] : Injective(q)}}

\* no two rows share block number, transaction hash and event type
NoTies(frame) ==
    \A i, j \in 1..Len(frame) :
        i # j => \/ frame[i].block_number # frame[j].block_number
                 \/ frame[i].transaction_hash # frame[j].transaction_hash
                 \/ frame[i].key_name # frame[j].key_name

\* the store that ordering and replaying frame leaves, from the store the batch met
StoreAfter(frame) == ReplayFrom(snapshot, snapshot, get_events(frame))

\* C2: whatever order the rows of a batch come in, ordering the batch and replaying it
\* leaves the same store, batches with several rows of one block number, transaction
\* hash and event type included.
AnyOrderSameStore ==
    pc \in {"done", "failed"} =>
        \A frame \in PermutationsOf(raw) : StoreAfter(frame) = loan_entities

\* C2 (amended): for a batch in which no two rows share block number, transaction hash
\* and event type, every order of the rows leaves the same store after ordering and replay.
AnyOrderSameStoreWithoutTies ==
    (pc \in {"done", "failed"} /\ NoTies(raw)) =>
        \A frame \in PermutationsOf(raw) : StoreAfter(frame) = loan_entities

\* a batch of three rows without ties, fetched out of order, was replayed to its end
AnyOrderSameStoreWitness ==
    /\ pc = "done"
    /\ Len(raw) = 3
    /\ NoTies(raw)
    /\ events # [i \in 1..Len(raw) |-> WithOrder(raw[i])]
    /\ loan_entities # snapshot

ClaimRank ==
    [new_loan |-> 0, loan_swap |-> 1, liquidated |-> 2, loan_withdrawal |-> 3,
     loan_repaid |-> 4, loan_interest_deducted |-> 5, collateral_added |-> 6,
     collateral_withdrawal |-> 7]

\* row a does not come after row b in (block_number, transaction_hash, type_priority)
ClaimKeyAtMost(a, b) ==
    \/ a.block_number < b.block_number
    \/ /\ a.block_number = b.block_number
       /\ HashRank[a.transaction_hash] < HashRank[b.transaction_hash]
    \/ /\ a.block_number = b.block_number
       /\ a.transaction_hash = b.transaction_hash
       /\ ClaimRank[a.key_name] <= ClaimRank[b.key_name]

\* C3: the frame get_events returns is ascending in (block_number, transaction_hash,
\* type_priority) with the ranks new_loan 0, loan_swap 1, liquidated 2, loan_withdrawal 3,
\* loan_repaid 4, loan_interest_deducted 5, collateral_added 6, collateral_withdrawal 7,
\* and every event type with a handler has a rank.
FrameAscending ==
    /\ KeyNames \subseteq DOMAIN OrderMap
    /\ \A k \in KeyNames : OrderMap[k] = ClaimRank[k]
    /\ \A k, l \in KeyNames : k # l => ClaimRank[k] # ClaimRank[l]
    /\ pc = "ordered" =>
        /\ Len(events) = Len(raw)
        /\ \A i \in 1..Len(events) : events[i].order = ClaimRank[events[i].key_name]
        /\ \A i, j \in 1..Len(events) : i < j => ClaimKeyAtMost(events[i], events[j])

\* a frame that came out of order was sorted: rows of two blocks, and two rows of one
\* transaction with different event types
FrameAscendingWitness ==
    /\ pc = "ordered"
    /\ Len(events) = 3
    /\ events # [i \in 1..Len(raw) |-> WithOrder(raw[i])]
    /\ events[1].block_number < events[3].block_number
    /\ \E i \in 1..2 :
        /\ events[i].block_number = events[i + 1].block_number
        /\ events[i].transaction_hash = events[i + 1].transaction_hash
        /\ events[i].key_name # events[i + 1].key_name

\* C4: a new_loan event whose loan id has an entity fails with an invariant violation and
\* the entity is not replaced.
NewLoanOnceOnly ==
    \A e \in NewLoanEvents :
        Has(loan_entities, e.data.id) =>
            LET r == process_new_loan_event(loan_entities, e) IN
            /\ r.outcome = "AssertionError"
            /\ r.store = loan_entities

\* C4 (amended): a new_loan event whose loan id has an entity is accepted like any other:
\* it does not fail, and the entity is replaced by one whose user, category, debt,
\* original_collateral, borrowed_collateral and collateral are those of the event.
NewLoanReplaces ==
    \A e \in NewLoanEvents :
        Has(loan_entities, e.data.id) =>
            LET r == process_new_loan_event(loan_entities, e)
                d == e.data
                original == [t \in Tokens |->
                    IF t = SymbolOf[d.collateral_market] THEN d.collateral_current_amount ELSE 0]
                borrowed == [t \in Tokens |->
                    IF t = SymbolOf[d.current_market] THEN d.current_amount ELSE 0]
            IN  /\ r.outcome = "ok"
                /\ DOMAIN r.store = DOMAIN loan_entities
                /\ r.store[d.id].user = d.owner
                /\ r.store[d.id].debt_category = d.debt_category
                /\ r.store[d.id].debt =
                       [t \in Tokens |-> IF t = SymbolOf[d.market] THEN d.amount ELSE 0]
                /\ r.store[d.id].original_collateral = original
                /\ r.store[d.id].borrowed_collateral = borrowed
                /\ r.store[d.id].collateral = [t \in Tokens |-> original[t] + borrowed[t]]

\* a new_loan event was applied to a loan id that had an entity
NewLoanReplacesWitness ==
    /\ last.key_name = "new_loan"
    /\ last.present
    /\ last.outcome = "ok"
    /\ Has(loan_entities, last.loan_id)

LiquidatedClearsLoan ==
    /\ (last.key_name = "liquidated" /\ last.outcome = "ok") =>
        /\ AllZero(loan_entities[last.loan_id].debt)
        /\ AllZero(loan_entities[last.loan_id].borrowed_collateral)
        /\ AllZero(loan_entities[last.loan_id].original_collateral)
        /\ AllZero(loan_entities[last.loan_id].collateral)
    /\ \A e \in LiquidatedEvents :
        (/\ Has(loan_entities, e.data.id)
         /\ loan_entities[e.data.id].user = e.data.owner
         /\ e.data.current_amount = 0) =>
            LET r == process_liquidated_event(loan_entities, e) IN
            /\ r.outcome = "ok"
            /\ AllZero(r.store[e.data.id].debt)
            /\ AllZero(r.store[e.data.id].borrowed_collateral)
            /\ AllZero(r.store[e.data.id].original_collateral)
            /\ AllZero(r.store[e.data.id].collateral)
            /\ r.store[e.data.id].debt_category = e.data.debt_category

\* a liquidated event was applied and the loan is empty
LiquidatedClearsLoanWitness ==
    /\ last.key_name = "liquidated"
    /\ last.outcome = "ok"
    /\ last.present
    /\ AllZero(loan_entities[last.loan_id].collateral)
    /\ AllZero(loan_entities[last.loan_id].debt)

\* the replayed frame is new_loan, then collateral_added / collateral_withdrawal events,
\* then loan_repaid, all for one loan id
RoundTrip(s) ==
    /\ Len(s) >= 2
    /\ s[1].key_name = "new_loan"
    /\ s[Len(s)].key_name = "loan_repaid"
    /\ s[Len(s)].data.id = s[1].data.id
    /\ \A i \in 2..(Len(s) - 1) :
        /\ s[i].key_name \in {"collateral_added", "collateral_withdrawal"}
        /\ s[i].data.loan_id = s[1].data.id

\* the original collateral the last collateral event of the frame carries, or the
\* new_loan event when there is none
LastOriginal(s) ==
    IF Len(s) = 2
    THEN [t \in Tokens |-> IF t = SymbolOf[s[1].data.collateral_market]
                           THEN s[1].data.collateral_current_amount ELSE 0]
    ELSE [t \in Tokens |-> IF t = SymbolOf[s[Len(s) - 1].data.market]
                           THEN s[Len(s) - 1].data.current_amount ELSE 0]

\* C7: after new_loan, collateral_added / collateral_withdrawal events and then
\* loan_repaid for one loan id, the loan's debt and borrowed_collateral are zero and its
\* original_collateral is the one the last collateral event set, or the new_loan one.
RepaidKeepsOriginal ==
    (pc = "done" /\ RoundTrip(events)) =>
        LET entity == loan_entities[events[1].data.id] IN
        /\ AllZero(entity.debt)
        /\ AllZero(entity.borrowed_collateral)
        /\ entity.original_collateral = LastOriginal(events)

\* a loan was created, its collateral rewritten to a non-zero amount, and then repaid
RepaidKeepsOriginalWitness ==
    /\ pc = "done"
    /\ RoundTrip(events)
    /\ Len(events) = 3
    /\ ~AllZero(LastOriginal(events))
    /\ LastOriginal(events) # LastOriginal(<<events[1], events[3]>>)
    /\ last.key_name = "loan_repaid"

\* C8: an accepted event of a type other than new_loan, applied a second time right
\* away, is accepted again and leaves the store as the first application left it.
OverwriteIdempotent ==
    \A e \in NonNewLoanEvents :
        LET once == EVENTS_METHODS_MAPPING(loan_entities, e) IN
        once.outcome = "ok" =>
            LET twice == EVENTS_METHODS_MAPPING(once.store, e) IN
            /\ twice.outcome = "ok"
            /\ twice.store = once.store

\* a collateral event with a non-zero amount is accepted in a store whose loan already
\* holds original collateral in the event's token
OverwriteIdempotentWitness ==
    /\ last.outcome = "ok"
    /\ \E e \in CollateralAddedEvents :
        /\ e.data.current_amount > 0
        /\ Has(loan_entities, e.data.loan_id)
        /\ loan_entities[e.data.loan_id].original_collateral[SymbolOf[e.data.market]] > 0
        /\ EVENTS_METHODS_MAPPING(loan_entities, e).outcome = "ok"

\* C9: compute_health_factor returns the infinity sentinel whenever the debt value is
\* zero, zero collateral included, never divides by zero, and returns
\* collateral_usd / debt_usd whenever the debt value is not zero.
HealthFactorSentinel ==
    risk.fn = "compute_health_factor" =>
        /\ risk.result.kind # "ZeroDivision"
        /\ risk.debt_usd = 0 => risk.result.kind = "Inf"
        /\ risk.debt_usd # 0 =>
            /\ risk.result.kind = "ratio"
            /\ risk.result.num * risk.debt_usd = risk.collateral_usd * risk.result.den

\* the health factor of a loan without debt and without collateral was computed
HealthFactorSentinelWitness ==
    /\ risk.fn = "compute_health_factor"
    /\ risk.debt_usd = 0
    /\ risk.collateral_usd = 0
    /\ risk.result.kind = "Inf"

\* the thresholds of the claim, in hundredths
ClaimThreshold(debt_category) ==
    CASE debt_category = 1 -> 106
      [] debt_category = 2 -> 105
      [] OTHER -> 104

\* C10: compute_standardized_health_factor uses threshold 1.06 for category 1, 1.05 for
\* category 2 and 1.04 for any other category, returns
\* collateral_usd / (threshold * debt_usd) when the debt value is not zero and the
\* infinity sentinel when it is zero; compute_liquidable_debt_at_price uses the same
\* thresholds.
StandardizedThresholds ==
    /\ risk.fn = "compute_standardized_health_factor" =>
        /\ risk.threshold = ClaimThreshold(risk.debt_category)
        /\ risk.debt_usd = 0 => risk.result.kind = "Inf"
        /\ risk.debt_usd # 0 =>
            /\ risk.result.kind = "ratio"
            /\ risk.result.num * ClaimThreshold(risk.debt_category) * risk.debt_usd
                   = 100 * risk.collateral_usd * risk.result.den
    /\ risk.fn = "compute_liquidable_debt_at_price" =>
        risk.threshold = ClaimThreshold(risk.debt_category)

\* the standardized health factor of an indebted loan of category 1 was computed
StandardizedThresholdsWitness ==
    /\ risk.fn = "compute_standardized_health_factor"
    /\ risk.debt_category = 1
    /\ risk.debt_usd > 0
    /\ risk.collateral_usd > 0
    /\ risk.result.kind = "ratio"

----------------------------------------------------------------------------

\* the price map of the query recorded in risk, with collateral_token's price overridden
ClaimPrices ==
    [t \in DOMAIN risk.prices \cup {risk.collateral_token} |->
        IF t = risk.collateral_token THEN risk.collateral_token_price ELSE risk.prices[t]]

\* the loan holds debt in debt_token and its health factor is below its threshold
ClaimQualifies(entity, prices, debt_token) ==
    /\ entity.debt[debt_token] > 0
    /\ compute_debt_usd(entity, prices).num > 0
    /\ 100 * compute_collateral_usd(entity, prices).num
           < ClaimThreshold(entity.debt_category) * compute_debt_usd(entity, prices).num

\* the loan holds debt in debt_token and its health factor is exactly its threshold
ClaimAtThreshold(entity, prices, debt_token) ==
    /\ entity.debt[debt_token] > 0
    /\ compute_debt_usd(entity, prices).num > 0
    /\ 100 * compute_collateral_usd(entity, prices).num
           = ClaimThreshold(entity.debt_category) * compute_debt_usd(entity, prices).num

\* C11: the value compute_liquidable_debt_at_price returns is the sum of debt_usd, under
\* the prices with collateral_token's price overridden, over the loans with strictly
\* positive debt in debt_token and health factor strictly below their category's
\* threshold; every other loan contributes nothing, and the query fails only on a
\* missing price of a loan with positive debt in debt_token.
LiquidableDebtIsSum ==
    risk.fn = "compute_liquidable_debt_at_price" =>
        LET scanned == {i \in DOMAIN loan_entities :
                            loan_entities[i].debt[risk.debt_token] > 0}
        IN  /\ risk.result.kind \in {"value", "PriceMissing"}
            /\ risk.result.kind = "PriceMissing" =>
                \E i \in scanned :
                    \/ Unpriced(loan_entities[i].debt, ClaimPrices)
                    \/ Unpriced(loan_entities[i].collateral, ClaimPrices)
            /\ risk.result.kind = "value" =>
                /\ risk.result.den = UsdScale
                /\ risk.result.num =
                       SumOver([i \in scanned |->
                                   compute_debt_usd(loan_entities[i], ClaimPrices).num],
                               {i \in scanned : ClaimQualifies(loan_entities[i], ClaimPrices,
                                                               risk.debt_token)})

\* a query summed the debt of one loan and left out a second loan that holds debt in
\* debt_token with its health factor exactly at its threshold
LiquidableDebtIsSumWitness ==
    /\ risk.fn = "compute_liquidable_debt_at_price"
    /\ risk.result.kind = "value"
    /\ risk.result.num > 0
    /\ \E i, j \in DOMAIN loan_entities :
        /\ i # j
        /\ ClaimQualifies(loan_entities[i], ClaimPrices, risk.debt_token)
        /\ ClaimAtThreshold(loan_entities[j], ClaimPrices, risk.debt_token)
        /\ risk.result.num = compute_debt_usd(loan_entities[i], ClaimPrices).num

QueryNames == {"compute_liquidable_debt_at_price", "compute_number_of_active_users",
               "compute_number_of_active_borrowers"}

\* C12: a risk query, whether it returns a value or fails, leaves the store and the
\* caller's price map as they were, and the same query repeated on them gives the same
\* result.
QueriesReadOnly ==
    /\ [][risk'.fn \in QueryNames => loan_entities' = loan_entities]_vars
    /\ [](risk.fn = "compute_liquidable_debt_at_price" =>
            /\ risk.prices_after = risk.prices
            /\ compute_liquidable_debt_at_price(loan_entities, risk.prices_after,
                   risk.collateral_token, risk.collateral_token_price,
                   risk.debt_token).result = risk.result)
    /\ [](risk.fn = "compute_number_of_active_users" =>
            compute_number_of_active_users(loan_entities).result = risk.result)
    /\ [](risk.fn = "compute_number_of_active_borrowers" =>
            compute_number_of_active_borrowers(loan_entities).result = risk.result)

\* a query on a store of two loans failed on a missing price, for a collateral token the
\* caller's price map has no entry for
QueriesReadOnlyWitness ==
    /\ risk.fn = "compute_liquidable_debt_at_price"
    /\ risk.result.kind = "PriceMissing"
    /\ risk.collateral_token \notin DOMAIN risk.prices
    /\ Cardinality(DOMAIN loan_entities) = 2

\* C13: compute_number_of_active_users is the number of distinct users that own a loan
\* with any collateral or any debt, compute_number_of_active_borrowers the number of
\* distinct users that own a loan with any debt; a user with several such loans counts once.
ActiveCountsDistinctUsers ==
    /\ risk.fn = "compute_number_of_active_users" =>
        risk.result = Cardinality({u \in Users :
            \E i \in DOMAIN loan_entities :
                /\ loan_entities[i].user = u
                /\ \/ ~AllZero(loan_entities[i].collateral)
                   \/ ~AllZero(loan_entities[i].debt)})
    /\ risk.fn = "compute_number_of_active_borrowers" =>
        risk.result = Cardinality({u \in Users :
            \E i \in DOMAIN loan_entities :
                /\ loan_entities[i].user = u
                /\ ~AllZero(loan_entities[i].debt)})

\* one user owns two loans that both hold collateral and is counted once
ActiveCountsDistinctUsersWitness ==
    /\ risk.fn = "compute_number_of_active_users"
    /\ risk.result = 1
    /\ \E i, j \in DOMAIN loan_entities :
        /\ i # j
        /\ loan_entities[i].user = loan_entities[j].user
        /\ ~AllZero(loan_entities[i].collateral)
        /\ ~AllZero(loan_entities[j].collateral)

----------------------------------------------------------------------------

\* rows i and j of the ordered frame belong to one transaction
SameTransaction(i, j) ==
    /\ events[i].block_number = events[j].block_number
    /\ events[i].transaction_hash = events[j].transaction_hash

Adjustments == {"loan_interest_deducted", "loan_repaid"}

\* C14: within one transaction every new_loan, loan_swap, liquidated, loan_withdrawal,
\* collateral_added and collateral_withdrawal event comes before every
\* loan_interest_deducted and loan_repaid event in the order of replay.
RewritesBeforeAdjustments ==
    pc = "ordered" =>
        \A i, j \in 1..Len(events) :
            (/\ SameTransaction(i, j)
             /\ events[i].key_name \in {"new_loan", "loan_swap", "liquidated", "loan_withdrawal",
                                        "collateral_added", "collateral_withdrawal"}
             /\ events[j].key_name \in Adjustments) => i < j

\* C14 (amended): within one transaction every new_loan, loan_swap, liquidated and
\* loan_withdrawal event comes before every loan_interest_deducted and loan_repaid event
\* in the order of replay, and every collateral_added and collateral_withdrawal event
\* comes after them.
LoanRewritesBeforeAdjustments ==
    pc = "ordered" =>
        \A i, j \in 1..Len(events) :
            (SameTransaction(i, j) /\ events[j].key_name \in Adjustments) =>
                /\ events[i].key_name \in {"new_loan", "loan_swap", "liquidated",
                                           "loan_withdrawal"} => i < j
                /\ events[i].key_name \in {"collateral_added", "collateral_withdrawal"} => j < i

\* one transaction came as collateral event, loan_repaid, loan rewrite and was ordered as
\* loan rewrite, loan_repaid, collateral event
LoanRewritesBeforeAdjustmentsWitness ==
    /\ pc = "ordered"
    /\ Len(events) = 3
    /\ SameTransaction(1, 2)
    /\ SameTransaction(2, 3)
    /\ raw[1].key_name \in {"collateral_added", "collateral_withdrawal"}
    /\ raw[2].key_name = "loan_repaid"
    /\ raw[3].key_name \in {"new_loan", "loan_swap", "liquidated", "loan_withdrawal"}
    /\ events[1].key_name = raw[3].key_name
    /\ events[2].key_name = "loan_repaid"
    /\ events[3].key_name = raw[1].key_name

----------------------------------------------------------------------------

\* the token amounts that hold amount for the token of address and zero otherwise
ClaimSingle(address, amount) == [t \in Tokens |-> IF t = SymbolOf[address] THEN amount ELSE 0]

\* C15: a loan_swap event for a loan in the store is accepted if and only if its old and
\* new loan ids are equal, its old and new users are equal and equal to the stored user,
\* and the stored debt equals the debt of the new loan record; otherwise it fails with an
\* assertion error.  An accepted swap overwrites borrowed_collateral and debt_category,
\* recomputes collateral, and leaves debt, original_collateral and user as they were.
SwapOnlyWholeDebt ==
    \A e \in LoanSwapEvents :
        Has(loan_entities, e.data.id) =>
            LET d == e.data
                old == loan_entities[d.id]
                r == process_loan_swap_event(loan_entities, e)
                accepted == /\ d.new_id = d.id
                            /\ d.new_owner = d.owner
                            /\ d.owner = old.user
                            /\ old.debt = ClaimSingle(d.new_market, d.new_amount)
                borrowed == ClaimSingle(d.new_current_market, d.new_current_amount)
            IN  /\ accepted => r.outcome = "ok"
                /\ ~accepted => r.outcome = "AssertionError"
                /\ accepted =>
                    /\ DOMAIN r.store = DOMAIN loan_entities
                    /\ r.store[d.id].borrowed_collateral = borrowed
                    /\ r.store[d.id].debt_category = d.new_debt_category
                    /\ r.store[d.id].collateral =
                           [t \in Tokens |-> old.original_collateral[t] + borrowed[t]]
                    /\ r.store[d.id].debt = old.debt
                    /\ r.store[d.id].original_collateral = old.original_collateral
                    /\ r.store[d.id].user = old.user

\* a swap was accepted for a loan that holds debt, original and borrowed collateral, and
\* a swap to another debt amount is at hand
SwapOnlyWholeDebtWitness ==
    /\ last.key_name = "loan_swap"
    /\ last.outcome = "ok"
    /\ last.present
    /\ ~AllZero(loan_entities[last.loan_id].debt)
    /\ ~AllZero(loan_entities[last.loan_id].original_collateral)
    /\ ~AllZero(loan_entities[last.loan_id].borrowed_collateral)
    /\ \E e \in LoanSwapEvents :
        /\ e.data.id = last.loan_id
        /\ e.data.new_id = e.data.id
        /\ e.data.new_owner = e.data.owner
        /\ e.data.owner = loan_entities[last.loan_id].user
        /\ process_loan_swap_event(loan_entities, e).outcome = "AssertionError"

----------------------------------------------------------------------------

\* C16: a loan_withdrawal, loan_repaid or liquidated event whose user is not the user
\* stored for its loan id fails with an assertion error and leaves the store unchanged.
UserMismatchFails ==
    \A e \in LoanWithdrawalEvents \cup LoanRepaidEvents \cup LiquidatedEvents :
        (Has(loan_entities, e.data.id) /\ loan_entities[e.data.id].user # e.data.owner) =>
            LET r == EVENTS_METHODS_MAPPING(loan_entities, e) IN
            /\ r.outcome = "AssertionError"
            /\ r.store = loan_entities

\* a loan_withdrawal event failed on a loan that holds debt and collateral: the user of
\* the event was not the stored one
UserMismatchFailsWitness ==
    /\ last.key_name = "loan_withdrawal"
    /\ last.outcome = "AssertionError"
    /\ last.present
    /\ ~AllZero(loan_entities[last.loan_id].debt)
    /\ ~AllZero(loan_entities[last.loan_id].collateral)

\* C17: a loan_repaid or liquidated event that carries a borrowed-collateral amount other
\* than zero fails with an assertion error and leaves the store unchanged, the debt of
\* the loan included.
PartialRepaymentFails ==
    \A e \in LoanRepaidEvents \cup LiquidatedEvents :
        (Has(loan_entities, e.data.id) /\ e.data.current_amount # 0) =>
            LET r == EVENTS_METHODS_MAPPING(loan_entities, e) IN
            /\ r.outcome = "AssertionError"
            /\ r.store = loan_entities
            /\ r.store[e.data.id].debt = loan_entities[e.data.id].debt

\* a loan_repaid event failed on a loan that holds debt, and a loan_repaid event of the
\* stored user with a borrowed-collateral amount other than zero fails on it
PartialRepaymentFailsWitness ==
    /\ last.key_name = "loan_repaid"
    /\ last.outcome = "AssertionError"
    /\ last.present
    /\ ~AllZero(loan_entities[last.loan_id].debt)
    /\ \E e \in LoanRepaidEvents :
        /\ e.data.id = last.loan_id
        /\ e.data.owner = loan_entities[last.loan_id].user
        /\ e.data.current_amount # 0
        /\ process_loan_repaid_event(loan_entities, e).outcome = "AssertionError"

----------------------------------------------------------------------------

\* C18: an event other than new_loan whose loan id has no entity fails and creates no
\* entity, and a step changes the set of loan ids of the store only by adding the id of
\* a new_loan event that was applied.
AbsentLoanFails ==
    /\ [](pc = "idle" =>
            \A e \in PortfolioEvents :
                (e.key_name # "new_loan" /\ ~Has(loan_entities, TargetOf(e))) =>
                    LET r == EVENTS_METHODS_MAPPING(loan_entities, e) IN
                    /\ r.outcome # "ok"
                    /\ r.store = loan_entities)
    /\ [][DOMAIN loan_entities' =
             DOMAIN loan_entities \cup
                 (IF last'.key_name = "new_loan" /\ last'.outcome = "ok"
                  THEN {last'.loan_id} ELSE {})]_vars

\* an event other than new_loan failed for a loan id without entity, in a store that
\* holds the other loan
AbsentLoanFailsWitness ==
    /\ last.key_name \in KeyNames \ {"new_loan"}
    /\ ~last.present
    /\ last.outcome # "ok"
    /\ last.loan_id \notin DOMAIN loan_entities
    /\ Cardinality(DOMAIN loan_entities) = 1

----------------------------------------------------------------------------

\* C19: a new_loan event for a loan id without entity is applied and creates an entity
\* with the user and debt_category of the event, debt exactly {debt token: amount},
\* original_collateral exactly {original token: amount}, borrowed_collateral exactly
\* {borrowed token: amount}, every other token zero, and collateral their sum: with
\* original and borrowed collateral in one token, the sum of the two amounts.
NewLoanCreates ==
    \A e \in NewLoanEvents :
        ~Has(loan_entities, e.data.id) =>
            LET d == e.data
                r == process_new_loan_event(loan_entities, e)
                original == ClaimSingle(d.collateral_market, d.collateral_current_amount)
                borrowed == ClaimSingle(d.current_market, d.current_amount)
            IN  /\ r.outcome = "ok"
                /\ DOMAIN r.store = DOMAIN loan_entities \cup {d.id}
                /\ r.store[d.id].user = d.owner
                /\ r.store[d.id].debt_category = d.debt_category
                /\ r.store[d.id].debt = ClaimSingle(d.market, d.amount)
                /\ r.store[d.id].original_collateral = original
                /\ r.store[d.id].borrowed_collateral = borrowed
                /\ \A t \in Tokens :
                    r.store[d.id].collateral[t] = original[t] + borrowed[t]
                /\ d.collateral_market = d.current_market =>
                    r.store[d.id].collateral[SymbolOf[d.current_market]]
                        = d.collateral_current_amount + d.current_amount

\* a new_loan event created a loan with debt and with original and borrowed collateral
\* in one token
NewLoanCreatesWitness ==
    /\ last.key_name = "new_loan"
    /\ last.outcome = "ok"
    /\ ~last.present
    /\ Has(loan_entities, last.loan_id)
    /\ ~AllZero(loan_entities[last.loan_id].debt)
    /\ \E t \in Tokens :
        /\ loan_entities[last.loan_id].original_collateral[t] > 0
        /\ loan_entities[last.loan_id].borrowed_collateral[t] > 0
        /\ loan_entities[last.loan_id].collateral[t]
               = loan_entities[last.loan_id].original_collateral[t]
                 + loan_entities[last.loan_id].borrowed_collateral[t]

\* C20: a collateral_added, collateral_withdrawal or loan_interest_deducted event for a
\* loan in the store replaces original_collateral by exactly the one token amount of the
\* event, whatever it held before, recomputes collateral, and leaves debt,
\* borrowed_collateral, debt_category and user unchanged.
CollateralEventsReplaceOriginal ==
    \A e \in CollateralAddedEvents \cup CollateralWithdrawalEvents
             \cup LoanInterestDeductedEvents :
        Has(loan_entities, e.data.loan_id) =>
            LET d == e.data
                old == loan_entities[d.loan_id]
                r == EVENTS_METHODS_MAPPING(loan_entities, e)
                original == ClaimSingle(d.market, d.current_amount)
            IN  /\ r.outcome = "ok"
                /\ DOMAIN r.store = DOMAIN loan_entities
                /\ r.store[d.loan_id].original_collateral = original
                /\ r.store[d.loan_id].collateral =
                       [t \in Tokens |-> original[t] + old.borrowed_collateral[t]]
                /\ r.store[d.loan_id].debt = old.debt
                /\ r.store[d.loan_id].borrowed_collateral = old.borrowed_collateral
                /\ r.store[d.loan_id].debt_category = old.debt_category
                /\ r.store[d.loan_id].user = old.user

\* a loan_interest_deducted event was applied to a loan with debt and borrowed
\* collateral, and an event that carries original collateral in another token than the
\* loan now holds is at hand
CollateralEventsReplaceOriginalWitness ==
    /\ last.key_name = "loan_interest_deducted"
    /\ last.outcome = "ok"
    /\ last.present
    /\ ~AllZero(loan_entities[last.loan_id].debt)
    /\ ~AllZero(loan_entities[last.loan_id].borrowed_collateral)
    /\ \E e \in CollateralWithdrawalEvents :
        /\ e.data.loan_id = last.loan_id
        /\ e.data.current_amount > 0
        /\ loan_entities[last.loan_id].original_collateral[SymbolOf[e.data.market]] = 0
        /\ ~AllZero(loan_entities[last.loan_id].original_collateral)

----------------------------------------------------------------------------

\* C21: a loan_withdrawal event of the stored user for a loan in the store is applied: it
\* replaces debt by exactly {debt token: amount}, borrowed_collateral by exactly
\* {borrowed token: amount} and debt_category by the event's, whatever they held before,
\* recomputes collateral, and leaves original_collateral and user unchanged.
LoanWithdrawalReplaces ==
    \A e \in LoanWithdrawalEvents :
        (Has(loan_entities, e.data.id) /\ loan_entities[e.data.id].user = e.data.owner) =>
            LET d == e.data
                old == loan_entities[d.id]
                r == process_loan_withdrawal_event(loan_entities, e)
                borrowed == ClaimSingle(d.current_market, d.current_amount)
            IN  /\ r.outcome = "ok"
                /\ DOMAIN r.store = DOMAIN loan_entities
                /\ r.store[d.id].debt = ClaimSingle(d.market, d.amount)
                /\ r.store[d.id].borrowed_collateral = borrowed
                /\ r.store[d.id].debt_category = d.debt_category
                /\ r.store[d.id].collateral =
                       [t \in Tokens |-> old.original_collateral[t] + borrowed[t]]
                /\ r.store[d.id].original_collateral = old.original_collateral
                /\ r.store[d.id].user = old.user

\* a loan_withdrawal event was applied to a loan that now holds debt, borrowed and
\* original collateral, and a loan_withdrawal event of the stored user that carries debt
\* and borrowed collateral in other tokens than the loan holds is at hand
LoanWithdrawalReplacesWitness ==
    /\ last.key_name = "loan_withdrawal"
    /\ last.outcome = "ok"
    /\ last.present
    /\ ~AllZero(loan_entities[last.loan_id].debt)
    /\ ~AllZero(loan_entities[last.loan_id].borrowed_collateral)
    /\ ~AllZero(loan_entities[last.loan_id].original_collateral)
    /\ \E e \in LoanWithdrawalEvents :
        /\ e.data.id = last.loan_id
        /\ e.data.owner = loan_entities[last.loan_id].user
        /\ e.data.amount > 0
        /\ e.data.current_amount > 0
        /\ loan_entities[last.loan_id].debt[SymbolOf[e.data.market]] = 0
        /\ loan_entities[last.loan_id].borrowed_collateral[SymbolOf[e.data.current_market]] = 0

----------------------------------------------------------------------------

----------------------------------------------------------------------------

\* C23: every handler is atomic on failure: when the call of a handler fails (user
\* mismatch, id mismatch, non-zero borrowed collateral, debt mismatch in loan_swap, or any
\* other failure), every field of every loan entity, borrowed_collateral and collateral
\* of the targeted loan included, keeps the value it had before the call.
HandlersAtomicOnFailure ==
    \A e \in NewLoanEvents \cup NonNewLoanEvents :
        LET r == EVENTS_METHODS_MAPPING(loan_entities, e) IN
        r.outcome # "ok" => r.store = loan_entities

\* a loan_swap event of the stored user and the same loan id is at hand whose debt
\* differs from the stored debt and whose borrowed collateral differs from the stored
\* one: its call fails on the debt assert and leaves another borrowed_collateral behind
HandlersAtomicOnFailureWitness ==
    \E e \in LoanSwapEvents :
        LET d == e.data
            r == process_loan_swap_event(loan_entities, e)
        IN  /\ Has(loan_entities, d.id)
            /\ d.new_id = d.id
            /\ loan_entities[d.id].user = d.owner
            /\ d.new_owner = d.owner
            /\ loan_entities[d.id].debt # ClaimSingle(d.new_market, d.new_amount)
            /\ r.outcome = "AssertionError"
            /\ r.store[d.id].borrowed_collateral # loan_entities[d.id].borrowed_collateral
            /\ r.store[d.id].debt = loan_entities[d.id].debt

----------------------------------------------------------------------------

\* loan_swap events whose new loan record names another loan id than the old one
CrossSwapEvents ==
    {Event("loan_swap", 1, "0x0a", LoanSwapRecord(id, owner, r)) :
        id \in PortfolioIds, owner \in Users,
        r \in PortfolioLoanRecords({<<ETH, MaxAmount>>}, Categories)}

\* C24: an event that targets loan id i, applied with success or not, leaves every loan
\* entity with another id than i as it was, and removes no loan id from the store.
OtherLoansUntouched ==
    pc = "idle" =>
        \A e \in PortfolioEvents \cup CrossSwapEvents :
            LET r == EVENTS_METHODS_MAPPING(loan_entities, e) IN
            /\ DOMAIN loan_entities \subseteq DOMAIN r.store
            /\ \A j \in DOMAIN loan_entities :
                    j # TargetOf(e) => r.store[j] = loan_entities[j]

\* the store holds two loans with debt, the last event was applied to one of them, and
\* events that rewrite, liquidate or re-create either loan, and a swap from one loan id to
\* the other, are at hand
OtherLoansUntouchedWitness ==
    /\ pc = "idle"
    /\ DOMAIN loan_entities = PortfolioIds
    /\ \A i \in PortfolioIds : ~AllZero(loan_entities[i].debt)
    /\ last.outcome = "ok"
    /\ last.present
    /\ \E e \in PortfolioEvents :
        /\ e.key_name = "liquidated"
        /\ EVENTS_METHODS_MAPPING(loan_entities, e).outcome = "ok"
        /\ EVENTS_METHODS_MAPPING(loan_entities, e).store # loan_entities
    /\ \E e \in CrossSwapEvents :
        /\ e.data.new_id # e.data.id
        /\ loan_entities[e.data.id].user = e.data.owner
        /\ EVENTS_METHODS_MAPPING(loan_entities, e).outcome = "AssertionError"

----------------------------------------------------------------------------

\* the tokens a balance holds a non-zero amount of
Held(amounts) == {t \in Tokens : amounts[t] # 0}

\* a balance of at most one token, and of no negative amount
ClaimOneToken(amounts) ==
    /\ Cardinality(Held(amounts)) <= 1
    /\ \A t \in Tokens : amounts[t] >= 0

\* price maps with an entry for every token
FullPrices ==
    {[t \in Tokens |-> IF t = "ETH" THEN p[1] ELSE p[2]] : p \in {<<40, 20>>, <<20, 40>>}}

\* C25: in every reachable state debt, original_collateral and borrowed_collateral of
\* every loan each hold at most one token with a non-zero amount, and no negative amount;
\* hence the USD value that compute_liquidable_debt_at_price adds for a loan it selects
\* for debt_token is the value of the loan's debt in debt_token alone.
OneTokenPerBalance ==
    \A i \in DOMAIN loan_entities :
        LET entity == loan_entities[i] IN
        /\ ClaimOneToken(entity.debt)
        /\ ClaimOneToken(entity.original_collateral)
        /\ ClaimOneToken(entity.borrowed_collateral)
        /\ \A debt_token \in Tokens : \A prices \in FullPrices :
               LET step == Liquidable(entity, prices, debt_token)
                   alone == entity.debt[debt_token]
                                * (UsdScale \div TOKEN_DECIMAL_FACTORS[debt_token])
                                * prices[debt_token]
               IN  /\ entity.debt[debt_token] > 0 =>
                        compute_debt_usd(entity, prices) = Value(alone)
                   /\ step.kind = "add" => step.num = alone

\* a handler has just rewritten a loan that holds debt, original collateral and borrowed
\* collateral, the debt in another token than the borrowed collateral, and a query for
\* the debt token would select the loan and add its debt
OneTokenPerBalanceWitness ==
    /\ last.outcome = "ok"
    /\ last.present
    /\ Has(loan_entities, last.loan_id)
    /\ LET entity == loan_entities[last.loan_id] IN
        /\ Cardinality(Held(entity.debt)) = 1
        /\ Cardinality(Held(entity.original_collateral)) = 1
        /\ Cardinality(Held(entity.borrowed_collateral)) = 1
        /\ Held(entity.debt) # Held(entity.borrowed_collateral)
        /\ \E debt_token \in Held(entity.debt) : \E prices \in FullPrices :
               /\ Liquidable(entity, prices, debt_token).kind = "add"
               /\ Liquidable(entity, prices, debt_token).num > 0

----------------------------------------------------------------------------

\* the store of the one loan i, and the store of all loans but i
Only(store, i) == [j \in {i} |-> store[j]]
Without(store, i) == [j \in DOMAIN store \ {i} |-> store[j]]

ActiveUsers(store) == compute_number_of_active_users(store).result
ActiveBorrowers(store) == compute_number_of_active_borrowers(store).result

\* the events of another type than new_loan that name loan i
LaterEvents(i) == {e \in PortfolioEvents : e.key_name # "new_loan" /\ TargetOf(e) = i}

\* the events that name another loan than i
OtherEvents(i) == {e \in PortfolioEvents : TargetOf(e) # i}

\* C26, as claimed: in every reachable state the number of active borrowers is at most
\* the number of active users; a loan that has been liquidated and not re-created by a
\* new_loan event adds to neither count, whatever other events followed its liquidation;
\* a loan that has been repaid while it held original collateral is counted for its user
\* as active user and not as active borrower.
LiquidatedLoanStaysInactive ==
    pc = "idle" =>
        /\ ActiveBorrowers(loan_entities) <= ActiveUsers(loan_entities)
        /\ \A e \in PortfolioEvents :
            LET r == EVENTS_METHODS_MAPPING(loan_entities, e)
                i == TargetOf(e)
            IN  /\ (e.key_name = "liquidated" /\ r.outcome = "ok") =>
                        /\ ActiveUsers(Only(r.store, i)) = 0
                        /\ ActiveBorrowers(Only(r.store, i)) = 0
                        /\ \A later \in LaterEvents(i) \cup OtherEvents(i) :
                               LET after == EVENTS_METHODS_MAPPING(r.store, later).store IN
                               /\ ActiveUsers(Only(after, i)) = 0
                               /\ ActiveBorrowers(Only(after, i)) = 0
                /\ (/\ e.key_name = "loan_repaid"
                    /\ r.outcome = "ok"
                    /\ ~AllZero(loan_entities[i].original_collateral)) =>
                        /\ ActiveUsers(Only(r.store, i)) = 1
                        /\ ActiveBorrowers(Only(r.store, i)) = 0

\* C26, amended: in every reachable state the number of active borrowers is at most the
\* number of active users; a loan adds to neither count in the state its liquidation
\* leaves, and for as long as only other loan ids are named by the events that follow; a
\* loan that is repaid while it holds original collateral is, in the state the repayment
\* leaves and for as long as only other loan ids are named, counted for its user as
\* active user and not as active borrower.
BorrowersAmongUsers ==
    pc = "idle" =>
        /\ ActiveBorrowers(loan_entities) <= ActiveUsers(loan_entities)
        /\ \A e \in PortfolioEvents :
            LET r == EVENTS_METHODS_MAPPING(loan_entities, e)
                i == TargetOf(e)
            IN  /\ (e.key_name = "liquidated" /\ r.outcome = "ok") =>
                        /\ ActiveUsers(Only(r.store, i)) = 0
                        /\ ActiveBorrowers(Only(r.store, i)) = 0
                        /\ ActiveUsers(r.store) = ActiveUsers(Without(r.store, i))
                        /\ ActiveBorrowers(r.store) = ActiveBorrowers(Without(r.store, i))
                        /\ \A later \in OtherEvents(i) :
                               LET after == EVENTS_METHODS_MAPPING(r.store, later).store IN
                               /\ ActiveUsers(Only(after, i)) = 0
                               /\ ActiveBorrowers(Only(after, i)) = 0
                /\ (/\ e.key_name = "loan_repaid"
                    /\ r.outcome = "ok"
                    /\ ~AllZero(loan_entities[i].original_collateral)) =>
                        /\ ActiveUsers(Only(r.store, i)) = 1
                        /\ ActiveBorrowers(Only(r.store, i)) = 0
                        /\ ActiveUsers(r.store) >= 1
                        /\ ActiveBorrowers(r.store) = ActiveBorrowers(Without(r.store, i))
                        /\ \A later \in OtherEvents(i) :
                               LET after == EVENTS_METHODS_MAPPING(r.store, later).store IN
                               /\ ActiveUsers(Only(after, i)) = 1
                               /\ ActiveBorrowers(Only(after, i)) = 0

\* one loan of the store has just been liquidated, the other has debt and original
\* collateral and is counted as user and as borrower, and a loan_repaid event that the
\* other loan accepts is at hand
BorrowersAmongUsersWitness ==
    /\ pc = "idle"
    /\ last.key_name = "liquidated"
    /\ last.outcome = "ok"
    /\ DOMAIN loan_entities = PortfolioIds
    /\ ActiveUsers(loan_entities) = 1
    /\ ActiveBorrowers(loan_entities) = 1
    /\ \E e \in PortfolioEvents :
        /\ e.key_name = "loan_repaid"
        /\ TargetOf(e) # last.loan_id
        /\ has_debt(loan_entities[TargetOf(e)])
        /\ ~AllZero(loan_entities[TargetOf(e)].original_collateral)
        /\ EVENTS_METHODS_MAPPING(loan_entities, e).outcome = "ok"
    /\ \E e \in LaterEvents(last.loan_id) :
        /\ EVENTS_METHODS_MAPPING(loan_entities, e).outcome = "ok"
        /\ ActiveUsers(Only(EVENTS_METHODS_MAPPING(loan_entities, e).store, last.loan_id)) = 1

====
